---------------------------- MODULE Spec2Model ----------------------------
(***************************************************************************)
(* A model of pypower/modcost.py: modcost(gencost, alpha, modtype), which  *)
(* scales or shifts every generator cost of a cost table, and polyshift(c, *)
(* a), which shifts a polynomial horizontally.                             *)
(*                                                                         *)
(* Numbers.  The tables hold numpy float64 values.  They are modelled as   *)
(* exact rationals [n, d] in lowest terms with d > 0, extended with the    *)
(* three values a float division by zero produces: [1,0] is +inf, [-1,0]   *)
(* is -inf and [0,0] is nan.  Rounding is not modelled.                    *)
(*                                                                         *)
(* Arrays.  Vectors, rows and tables are functions on 0..len-1, as numpy   *)
(* indexes them.  A table is a record [ng, m, x]: its shape and its cells. *)
(***************************************************************************)
EXTENDS Integers, Sequences, FiniteSets, TLC

(***************************************************************************)
(* Bounds of the model.                                                    *)
(***************************************************************************)
\* polyshift is run on coefficient vectors of length 0..MaxN
MaxN == 3
\* a cost table has 0..MaxRows rows
MaxRows == 2
\* a cost table has MinSlots..MaxSlots coefficient slots (m - COST)
MaxSlots == 3
\* a polynomial row's count is drawn from -MaxExcess .. slots + MaxExcess
MaxExcess == 1

MinSlots == MaxSlots - 1

(***************************************************************************)
(* Float arithmetic, on extended rationals.                                *)
(***************************************************************************)
Abs(i) == IF i < 0 THEN -i ELSE i

Sign(i) == IF i < 0 THEN -1 ELSE IF i > 0 THEN 1 ELSE 0

RECURSIVE GCD(_, _)
GCD(i, j) == IF j = 0 THEN i ELSE GCD(j, i % j)

\* the float with value n/d (d >= 0); n/0 is an infinity or nan
Q(n, d) ==
    IF d = 0 THEN [n |-> Sign(n), d |-> 0]
    ELSE LET g == GCD(Abs(n), d) IN [n |-> n \div g, d |-> d \div g]

Zero == Q(0, 1)
One == Q(1, 1)
NaN == Q(0, 0)

IsFinite(x) == x.d > 0

\* x + y
RAdd(x, y) ==
    IF x.d = 0 /\ y.d = 0
    THEN (IF x.n = y.n THEN x ELSE NaN)
    ELSE Q(x.n * y.d + y.n * x.d, x.d * y.d)

\* x * y
RMul(x, y) == Q(x.n * y.n, x.d * y.d)

\* -x
RNeg(x) == [n |-> -x.n, d |-> x.d]

\* x / y; a finite x over zero is an infinity, 0/0 is nan, and nothing is raised
RDiv(x, y) ==
    IF y.d = 0
    THEN (IF x.d = 0 THEN NaN ELSE Zero)
    ELSE Q(x.n * y.d * (IF y.n < 0 THEN -1 ELSE 1), x.d * Abs(y.n))

\* x ** e for an integer e >= 0; x ** 0 is 1 for every x
RECURSIVE RPow(_, _)
RPow(x, e) == IF e <= 0 THEN One ELSE RMul(x, RPow(x, e - 1))

\* float -> int conversion: truncation toward zero
AsInt(x) == Sign(x.n) * (Abs(x.n) \div x.d)

(***************************************************************************)
(* numpy vectors.                                                          *)
(***************************************************************************)
VLen(v) == Cardinality(DOMAIN v)

\* zeros(n), ones(n)
Zeros(n) == [i \in 0..(n - 1) |-> Zero]
Ones(n) == [i \in 0..(n - 1) |-> One]

\* v[:j]: the first j elements; all of v when j >= len, len + j of them when j < 0
Take(v, j) ==
    LET len == VLen(v)
        stop == IF j < 0 THEN (IF len + j < 0 THEN 0 ELSE len + j)
                ELSE IF j > len THEN len ELSE j
    IN [i \in 0..(stop - 1) |-> v[i]]

RECURSIVE SumTo(_, _)
SumTo(v, i) == IF i < 0 THEN Zero ELSE RAdd(SumTo(v, i - 1), v[i])

\* cumsum(v)
CumSum(v) == [i \in DOMAIN v |-> SumTo(v, i)]

\* dot(u, v) of two vectors of one length
Dot(u, v) == SumTo([i \in DOMAIN u |-> RMul(u[i], v[i])], VLen(u) - 1)

\* polyval(c, x): c in descending-degree order, by Horner's rule
RECURSIVE Horner(_, _, _)
Horner(c, x, i) == IF i < 0 THEN Zero ELSE RAdd(RMul(Horner(c, x, i - 1), x), c[i])

Polyval(c, x) == Horner(c, x, VLen(c) - 1)

(***************************************************************************)
(* polyshift(c, a)                                                         *)
(***************************************************************************)
\* PowerVector with the sign of a lost: pow(a * ones(n), arange(n))
PowerVectorUnsigned(a, n) == [t \in 0..(n - 1) |-> RPow(RMul(a, One), t)]

\* A = pow(-a * ones(n), arange(n))
PowerVector(a, n) == [t \in 0..(n - 1) |-> RPow(RMul(RNeg(a), One), t)]

\* ShiftCoefficient with c read forwards: dot(b, c[:n - k] * A[:n - k])
ShiftCoefficientUnreversed(c, A, b, n, k) ==
    Dot(b, [t \in 0..(n - k - 1) |-> RMul(c[t], A[t])])

\* dot(b, c[n - k - 1::-1] * A[:n - k]): the value written to d[n - k - 1]
ShiftCoefficient(c, A, b, n, k) ==
    Dot(b, [t \in 0..(n - k - 1) |-> RMul(c[n - k - 1 - t], A[t])])

\* NextB without the cumulative sum: b = b[:n - k - 1]
NextBNoCumSum(b, n, k) == Take(b, n - k - 1)

\* b = cumsum(b[:n - k - 1])
NextB(b, n, k) == CumSum(Take(b, n - k - 1))

\* the loop from iteration k on
RECURSIVE PolyshiftLoop(_, _, _, _, _)
PolyshiftLoop(c, A, b, d, k) ==
    LET n == VLen(c) IN
    IF k >= n THEN d
    ELSE PolyshiftLoop(c, A, NextB(b, n, k),
                       [d EXCEPT ![n - k - 1] = ShiftCoefficient(c, A, b, n, k)],
                       k + 1)

Polyshift(c, a) ==
    LET n == VLen(c) IN PolyshiftLoop(c, PowerVector(a, n), Ones(n), Zeros(n), 0)


(***************************************************************************)
(* The cost table's columns and model tags (idx_cost, imported by          *)
(* modcost.py): MODEL, STARTUP, SHUTDOWN, NCOST, then the coefficient      *)
(* slots from column COST to the last column.                              *)
(***************************************************************************)
MODEL == 0
NCOST == 3
COST == 4
PW_LINEAR == 1
POLYNOMIAL == 2

\* the modtype a call without one gets
DefaultModtype == "SCALE_F"

NoError == "none"

(***************************************************************************)
(* numpy indexing.                                                         *)
(***************************************************************************)
\* an integer index into an axis of length len: negative ones count from the end
ValidIndex(idx, len) == -len <= idx /\ idx < len

NormIndex(idx, len) == IF idx < 0 THEN idx + len ELSE idx

\* the stop of a slice [start:stop] of an axis of length len, start >= 0
SliceStop(stop, len) ==
    LET s == IF stop < 0 THEN stop + len ELSE stop
    IN IF s < 0 THEN 0 ELSE IF s > len THEN len ELSE s

\* the columns of the slice [start:stop:2]
Strided(start, stop) == {j \in start..(stop - 1) : (j - start) % 2 = 0}

\* find(gencost[:, MODEL] == tag): the matching row indices, ascending
RECURSIVE FindFrom(_, _, _)
FindFrom(g, tag, r) ==
    IF r >= g.ng THEN << >>
    ELSE (IF g.x[r][MODEL] = Q(tag, 1) THEN << r >> ELSE << >>) \o FindFrom(g, tag, r + 1)

Find(g, tag) ==
    LET s == FindFrom(g, tag, 0) IN [k \in 0..(Len(s) - 1) |-> s[k + 1]]

\* CoefBlock taking the block's k-th row from the table's k-th row: gencost[:len(rows), COST:m]
CoefBlockByPosition(g, rows) ==
    [k \in DOMAIN rows |-> [i \in 0..(g.m - COST - 1) |-> g.x[k][COST + i]]]

\* gencost[rows, COST:m]: a copy of the coefficient slots of the rows
CoefBlock(g, rows) ==
    [k \in DOMAIN rows |-> [i \in 0..(g.m - COST - 1) |-> g.x[rows[k]][COST + i]]]

\* the set of row indices an index vector holds
Range(f) == {f[k] : k \in DOMAIN f}

\* alpha * v or alpha + v
Apply(op, al, v) == IF op = "*" THEN RMul(al, v) ELSE RAdd(al, v)

\* gencost[rows, cols] = alpha op gencost[rows, cols], cell by cell
MapCells(g, rows, cols, op, al) ==
    [g EXCEPT !.x = [r \in DOMAIN g.x |->
        [j \in DOMAIN g.x[r] |->
            IF r \in Range(rows) /\ j \in cols THEN Apply(op, al, g.x[r][j]) ELSE g.x[r][j]]]]

\* gencost[row, col] = v
SetCell(g, row, col, v) == [g EXCEPT !.x[row][col] = v]

(***************************************************************************)
(* modcost: the loop bodies over the polynomial rows.  Each gives the      *)
(* table after iteration k and the exception it raised, if any.            *)
(***************************************************************************)
\* ScaleXRow with the exponent off by one: alpha**(n - i)
ScaleXRowOffByOne(g, c, ipol, k, al) ==
    LET row == ipol[k]
        n == AsInt(g.x[row][NCOST])
        w == VLen(c[k])
        last == IF n > w THEN w ELSE n
    IN [g |-> [g EXCEPT !.x[row] = [j \in DOMAIN g.x[row] |->
                  IF j >= COST /\ j < COST + last
                  THEN RDiv(c[k][j - COST], RPow(al, n - (j - COST)))
                  ELSE g.x[row][j]]],
        err |-> IF n > w THEN "IndexError" ELSE NoError]

\* SCALE_X: for i in range(n): gencost[ipol[k], COST + i] = c[k, i] / alpha**(n - i - 1)
\* c[k, i] raises IndexError at the first i beyond the slots
ScaleXRow(g, c, ipol, k, al) ==
    LET row == ipol[k]
        n == AsInt(g.x[row][NCOST])
        w == VLen(c[k])
        last == IF n > w THEN w ELSE n
    IN [g |-> [g EXCEPT !.x[row] = [j \in DOMAIN g.x[row] |->
                  IF j >= COST /\ j < COST + last
                  THEN RDiv(c[k][j - COST], RPow(al, n - (j - COST) - 1))
                  ELSE g.x[row][j]]],
        err |-> IF n > w THEN "IndexError" ELSE NoError]

\* ShiftFRow taking the first slot for the constant term: gencost[ipol[k], COST] = alpha + c[k, 0]
ShiftFRowFirstSlot(g, c, ipol, k, al) ==
    LET row == ipol[k]
    IN [g |-> SetCell(g, row, COST, RAdd(al, c[k][0])), err |-> NoError]

\* SHIFT_F: gencost[ipol[k], COST + n - 1] = alpha + c[k, n - 1]
ShiftFRow(g, c, ipol, k, al) ==
    LET row == ipol[k]
        n == AsInt(g.x[row][NCOST])
        w == VLen(c[k])
    IN IF ~ValidIndex(n - 1, w) \/ ~ValidIndex(COST + n - 1, g.m)
       THEN [g |-> g, err |-> "IndexError"]
       ELSE [g |-> SetCell(g, row, NormIndex(COST + n - 1, g.m),
                           RAdd(al, c[k][NormIndex(n - 1, w)])),
             err |-> NoError]

\* ShiftXRow shifting the other way: polyshift(c[k, :n].T, -alpha)
ShiftXRowBackwards(g, c, ipol, k, al) ==
    LET row == ipol[k]
        n == AsInt(g.x[row][NCOST])
        d == Polyshift(Take(c[k], n), RNeg(al))
        stop == SliceStop(COST + n, g.m)
        len == IF stop > COST THEN stop - COST ELSE 0
    IN IF VLen(d) # len /\ VLen(d) # 1
       THEN [g |-> g, err |-> "ValueError"]
       ELSE [g |-> [g EXCEPT !.x[row] = [j \in DOMAIN g.x[row] |->
                       IF j >= COST /\ j < COST + len
                       THEN (IF VLen(d) = len THEN d[j - COST] ELSE d[0])
                       ELSE g.x[row][j]]],
             err |-> NoError]

\* SHIFT_X: gencost[ipol[k], COST:COST + n] = polyshift(c[k, :n].T, alpha).T
\* the assignment raises ValueError unless the lengths agree or one value is broadcast
ShiftXRow(g, c, ipol, k, al) ==
    LET row == ipol[k]
        n == AsInt(g.x[row][NCOST])
        d == Polyshift(Take(c[k], n), al)
        stop == SliceStop(COST + n, g.m)
        len == IF stop > COST THEN stop - COST ELSE 0
    IN IF VLen(d) # len /\ VLen(d) # 1
       THEN [g |-> g, err |-> "ValueError"]
       ELSE [g |-> [g EXCEPT !.x[row] = [j \in DOMAIN g.x[row] |->
                       IF j >= COST /\ j < COST + len
                       THEN (IF VLen(d) = len THEN d[j - COST] ELSE d[0])
                       ELSE g.x[row][j]]],
             err |-> NoError]

\* the body of modtype's loop over the polynomial rows
PolyRow(g, c, ipol, k, al, mt) ==
    CASE mt = "SCALE_X" -> ScaleXRow(g, c, ipol, k, al)
      [] mt = "SHIFT_F" -> ShiftFRow(g, c, ipol, k, al)
      [] mt = "SHIFT_X" -> ShiftXRow(g, c, ipol, k, al)

\* for k in range(len(ipol)): body; an exception ends the loop
RECURSIVE ForEachPoly(_, _, _, _, _, _)
ForEachPoly(st, c, ipol, al, mt, k) ==
    IF k >= VLen(ipol) \/ st.err # NoError THEN st
    ELSE ForEachPoly(PolyRow(st.g, c, ipol, k, al, mt), c, ipol, al, mt, k + 1)

\* then the slice assignment to the piecewise-linear rows, unless an exception came
ThenPwl(st, ipwl, cols, op, al) ==
    IF st.err # NoError THEN st
    ELSE [g |-> MapCells(st.g, ipwl, cols, op, al), err |-> NoError]

\* AllCols starting one column late: COST + 1:m
AllColsSkipFirst(m) == (COST + 1)..(m - 1)

\* the slices of a row of m columns: COST:m, COST:m - 1:2 and COST + 1:m:2
AllCols(m) == COST..(m - 1)
XCols(m) == Strided(COST, m - 1)
YCols(m) == Strided(COST + 1, m)

\* sys.stderr.write('modcost: "%s" is not a valid modtype\n' % modtype)
InvalidModtype(mt) == << "modcost: not a valid modtype", mt >>

\* InvalidMode raising instead of warning
InvalidModeRaises(g, mt) == [g |-> g, err |-> "ValueError", stderr |-> << >>]

\* the else branch: the diagnostic, and the copy as it is
InvalidMode(g, mt) == [g |-> g, err |-> NoError, stderr |-> << InvalidModtype(mt) >>]

(***************************************************************************)
(* modcost's body after the copy: the table, the exception and what was    *)
(* written to stderr.                                                      *)
(***************************************************************************)
ModcostBody(g, al, mt) ==
    LET m == g.m
        ipwl == Find(g, PW_LINEAR)
        ipol == Find(g, POLYNOMIAL)
        c == CoefBlock(g, ipol)
        start == [g |-> g, err |-> NoError]
        quiet(st) == [g |-> st.g, err |-> st.err, stderr |-> << >>]
    IN IF g.ng = 0 THEN quiet(start)
       ELSE CASE mt = "SCALE_F" ->
                   quiet(ThenPwl([g |-> MapCells(g, ipol, AllCols(m), "*", al),
                                  err |-> NoError],
                                 ipwl, YCols(m), "*", al))
              [] mt = "SCALE_X" ->
                   quiet(ThenPwl(ForEachPoly(start, c, ipol, al, mt, 0),
                                 ipwl, XCols(m), "*", al))
              [] mt = "SHIFT_F" ->
                   quiet(ThenPwl(ForEachPoly(start, c, ipol, al, mt, 0),
                                 ipwl, YCols(m), "+", al))
              [] mt = "SHIFT_X" ->
                   quiet(ThenPwl(ForEachPoly(start, c, ipol, al, mt, 0),
                                 ipwl, XCols(m), "+", al))
              [] OTHER -> InvalidMode(g, mt)


(***************************************************************************)
(* The call modcost(gencost, alpha, modtype).  Arrays are objects: heap    *)
(* maps a reference to the table it holds, and the caller keeps its        *)
(* reference to the table it passes.                                       *)
(***************************************************************************)
NoRef == 0

\* CopyTable without the copy: gencost = gencost
NoCopy(h, ref) == [heap |-> h, ref |-> ref]

\* gencost.copy(): a new array with the same cells
CopyTable(h, ref) ==
    LET new == Cardinality(DOMAIN h) + 1
    IN [heap |-> h @@ (new :> h[ref]), ref |-> new]

\* the call: the heap after it, the reference returned (NoRef when it raised),
\* the exception raised and what was written to stderr
Modcost(h, ref, al, mt) ==
    LET cp == CopyTable(h, ref)
        out == ModcostBody(cp.heap[cp.ref], al, mt)
    IN [heap |-> [cp.heap EXCEPT ![cp.ref] = out.g],
        ret |-> IF out.err = NoError THEN cp.ref ELSE NoRef,
        err |-> out.err,
        stderr |-> out.stderr]

(***************************************************************************)
(* The inputs the model draws.                                             *)
(***************************************************************************)
CoefVals == {Q(0 - 1, 1), Zero, Q(2, 1)}

AlphaVals == {Zero, Q(2, 1), Q(0 - 1, 2)}

ShiftVals == AlphaVals \cup {One, Q(0 - 1, 1)}

XVals == {Q(0 - 2, 1), Zero, One, Q(3, 2)}

ModTypes == {"SCALE_F", "SCALE_X", "SHIFT_F", "SHIFT_X"}

Omitted == "(omitted)"

ModtypeArgs == ModTypes \cup {"BOGUS", Omitted}

\* a row: the model tag, two other header columns, the count, the slots
MakeRow(model, count, slots) ==
    [j \in 0..(COST + VLen(slots) - 1) |->
        IF j = MODEL THEN Q(model, 1)
        ELSE IF j = NCOST THEN Q(count, 1)
        ELSE IF j < COST THEN Q(10 + j, 1)
        ELSE slots[j - COST]]

Vectors(n) == [0..(n - 1) -> CoefVals]

\* every polynomial row of w slots with a count in or around 0..w, and every
\* piecewise-linear row of w slots with a count its slots can hold
FocusRows(w) ==
    {MakeRow(POLYNOMIAL, n, s) : n \in (0 - MaxExcess)..(w + MaxExcess), s \in Vectors(w)}
    \cup {MakeRow(PW_LINEAR, n, s) : n \in 0..(w \div 2), s \in Vectors(w)}

\* two fixed well-formed rows, one of each model, that fill the other rows
CompanionRows(w) ==
    {MakeRow(POLYNOMIAL, 2, [i \in 0..(w - 1) |-> Q(i + 1, 1)]),
     MakeRow(PW_LINEAR, 1, [i \in 0..(w - 1) |-> Q(i + 1, 1)])}

\* the table of no rows and w slots
EmptyTable(w) == [ng |-> 0, m |-> COST + w, x |-> << >>]

\* the table of len rows and w slots with row f at pos and the rows others elsewhere
MakeTable(w, len, pos, f, others) ==
    [ng |-> len, m |-> COST + w,
     x |-> [r \in 0..(len - 1) |-> IF r = pos THEN f ELSE others[r]]]

\* x^2 + 2x + 1
ExampleCoefs == [i \in 0..2 |-> IF i = 1 THEN Q(2, 1) ELSE One]

\* breakpoints (0, 0), (10, 50)
ExampleBreakpoints ==
    [i \in 0..3 |-> IF i = 2 THEN Q(10, 1) ELSE IF i = 3 THEN Q(50, 1) ELSE Zero]

\* the tables of the documented examples: breakpoints (0,0), (10,50), and x^2 + 2x + 1
ExampleTables ==
    {[ng |-> 1, m |-> COST + 4,
      x |-> [r \in {0} |-> MakeRow(PW_LINEAR, 2, ExampleBreakpoints)]],
     [ng |-> 1, m |-> COST + 3,
      x |-> [r \in {0} |-> MakeRow(POLYNOMIAL, 3, ExampleCoefs)]]}

\* the coefficient vectors polyshift is run on
ShiftInputs == {ExampleCoefs} \cup UNION {Vectors(n) : n \in 0..MaxN}

(***************************************************************************)
(* State.                                                                  *)
(***************************************************************************)
VARIABLES
    heap,          \* the arrays: reference -> table
    gencost,       \* the reference the caller holds and passes to modcost
    given,         \* the cells of the caller's table when it was passed
    alpha,         \* modcost's argument alpha
    modtype,       \* modcost's argument modtype; DefaultModtype when omitted
    arg_modtype,   \* the modtype the caller wrote, or Omitted
    ret,           \* the reference the last call returned, NoRef before and on an exception
    err,           \* the exception modcost raised, NoError if none
    stderr,        \* what was written to sys.stderr
    pc,            \* "idle", "ready" (before the call), "returned" or "raised", and
                   \* after a second call on the result "inverted" or "inverse_raised"
    ps_pc,         \* polyshift: "idle", "loop" or "done"
    ps_c,          \* polyshift's argument c
    ps_a,          \* polyshift's argument a
    ps_A,          \* polyshift's A
    ps_b,          \* polyshift's b
    ps_d,          \* polyshift's d
    ps_k,          \* polyshift's loop index k
    ps_w           \* polyshift: how many times each position of d was assigned

mvars == << heap, gencost, given, alpha, modtype, arg_modtype, ret, err, stderr, pc >>
psvars == << ps_pc, ps_c, ps_a, ps_A, ps_b, ps_d, ps_k, ps_w >>
vars == << mvars, psvars >>

NoCall ==
    /\ heap = << >> /\ gencost = NoRef /\ given = << >>
    /\ alpha = Zero /\ modtype = "" /\ arg_modtype = ""
    /\ ret = NoRef /\ err = NoError /\ stderr = << >> /\ pc = "idle"

NoShift ==
    /\ ps_pc = "idle" /\ ps_c = << >> /\ ps_a = Zero
    /\ ps_A = << >> /\ ps_b = << >> /\ ps_d = << >> /\ ps_k = 0
    /\ ps_w = << >>

(***************************************************************************)
(* modcost called once on a table the caller holds.                        *)
(***************************************************************************)
\* the caller holds table t
Holds(t) == heap = (1 :> t) /\ given = t

\* the caller's table: an example, an empty table, or a table of 1..MaxRows rows
\* of which one is any focus row and the others are companion rows
Init ==
    /\ \/ \E t \in ExampleTables : Holds(t)
       \/ \E w \in MinSlots..MaxSlots : Holds(EmptyTable(w))
       \/ \E w \in MinSlots..MaxSlots, len \in 1..MaxRows :
            \E pos \in 0..(len - 1), f \in FocusRows(w) :
               \E others \in [(0..(len - 1)) \ {pos} -> CompanionRows(w)] :
                  Holds(MakeTable(w, len, pos, f, others))
    /\ gencost = 1
    /\ alpha = Zero /\ modtype = "" /\ arg_modtype = ""
    /\ ret = NoRef /\ err = NoError /\ stderr = << >> /\ pc = "ready"
    /\ NoShift

Call ==
    /\ pc = "ready"
    /\ \E al \in AlphaVals, mt \in ModtypeArgs :
          \* r: the outcome of the call
          \E r \in {Modcost(heap, gencost, al, IF mt = Omitted THEN DefaultModtype ELSE mt)} :
             /\ alpha' = al
             /\ arg_modtype' = mt
             /\ modtype' = IF mt = Omitted THEN DefaultModtype ELSE mt
             /\ heap' = r.heap
             /\ ret' = r.ret
             /\ err' = r.err
             /\ stderr' = stderr \o r.stderr
             /\ pc' = IF r.err = NoError THEN "returned" ELSE "raised"
    /\ UNCHANGED << gencost, given, psvars >>

Next == Call

Spec == Init /\ [][Next]_vars

(***************************************************************************)
(* modcost called a second time, on the table the first call returned,     *)
(* with the same modtype and the alpha that undoes the first: -alpha for   *)
(* SHIFT_F, 1/alpha for SCALE_F with alpha # 0.                            *)
(***************************************************************************)
Inverse(mt, al) == IF mt = "SCALE_F" THEN RDiv(One, al) ELSE RNeg(al)

CallInverse ==
    /\ pc = "returned"
    /\ modtype \in {"SCALE_F", "SHIFT_F"}
    /\ modtype = "SCALE_F" => alpha # Zero
    /\ \E r \in {Modcost(heap, ret, Inverse(modtype, alpha), modtype)} :
          /\ heap' = r.heap
          /\ ret' = r.ret
          /\ err' = r.err
          /\ stderr' = stderr \o r.stderr
          /\ pc' = IF r.err = NoError THEN "inverted" ELSE "inverse_raised"
    /\ UNCHANGED << gencost, given, alpha, modtype, arg_modtype, psvars >>

NextPair == Call \/ CallInverse

SpecPair == Init /\ [][NextPair]_vars

(***************************************************************************)
(* polyshift run on its own, one loop iteration a step.                    *)
(***************************************************************************)
InitShift ==
    /\ NoCall
    /\ \E c \in ShiftInputs, a \in ShiftVals :
          /\ ps_c = c
          /\ ps_a = a
          /\ ps_d = Zeros(VLen(c))
          /\ ps_A = PowerVector(a, VLen(c))
          /\ ps_b = Ones(VLen(c))
          /\ ps_w = [j \in 0..(VLen(c) - 1) |-> 0]
    /\ ps_k = 0
    /\ ps_pc = "loop"

PolyshiftIter ==
    /\ ps_pc = "loop"
    /\ ps_k < VLen(ps_c)
    /\ ps_d' = [ps_d EXCEPT ![VLen(ps_c) - ps_k - 1] =
                    ShiftCoefficient(ps_c, ps_A, ps_b, VLen(ps_c), ps_k)]
    /\ ps_w' = [ps_w EXCEPT ![VLen(ps_c) - ps_k - 1] = @ + 1]
    /\ ps_b' = NextB(ps_b, VLen(ps_c), ps_k)
    /\ ps_k' = ps_k + 1
    /\ UNCHANGED << ps_pc, ps_c, ps_a, ps_A, mvars >>

PolyshiftReturn ==
    /\ ps_pc = "loop"
    /\ ps_k >= VLen(ps_c)
    /\ ps_pc' = "done"
    /\ UNCHANGED << ps_c, ps_a, ps_A, ps_b, ps_d, ps_k, ps_w, mvars >>

NextShift == PolyshiftIter \/ PolyshiftReturn

SpecShift == InitShift /\ [][NextShift]_vars


(***************************************************************************)
(* What the properties speak of.                                           *)
(***************************************************************************)
Returned == pc = "returned"
Raised == pc = "raised"
Called == pc \in {"returned", "raised"}

\* the table modcost returned
Out == heap[ret]

Rows(t) == 0..(t.ng - 1)
Slots(t) == t.m - COST

IsPoly(row) == row[MODEL] = Q(POLYNOMIAL, 1)
IsPwl(row) == row[MODEL] = Q(PW_LINEAR, 1)
Count(row) == AsInt(row[NCOST])

\* a polynomial row of n coefficients or a piecewise-linear row of n breakpoints
\* whose n its w slots can hold
PolyRowOf(row, w) == IsPoly(row) /\ 0 <= Count(row) /\ Count(row) <= w
PwlRowOf(row, w) == IsPwl(row) /\ 0 <= Count(row) /\ 2 * Count(row) <= w
Malformed(row, w) == IsPoly(row) /\ (Count(row) < 0 \/ Count(row) > w)

\* the first n coefficient slots, and breakpoint i's coordinates
Active(row, n) == [i \in 0..(n - 1) |-> row[COST + i]]
XCoord(row, i) == row[COST + 2 * i]
YCoord(row, i) == row[COST + 2 * i + 1]

\* the polynomial rows and the piecewise-linear rows of the table that was passed
PolyRowsGiven == {r \in Rows(given) : PolyRowOf(given.x[r], Slots(given))}
PwlRowsGiven == {r \in Rows(given) : PwlRowOf(given.x[r], Slots(given))}

\* the binomial coefficient C(n, k), by Pascal's rule
RECURSIVE Binom(_, _)
Binom(n, k) ==
    IF k < 0 \/ k > n THEN 0
    ELSE IF k = 0 \/ k = n THEN 1
    ELSE Binom(n - 1, k - 1) + Binom(n - 1, k)

\* the coefficient of x^k in c(x - a): sum over t of C(k + t, k) * (-a)^t * c[n - k - 1 - t]
BinomSum(c, a, k) ==
    LET n == VLen(c) IN
    SumTo([t \in 0..(n - k - 1) |->
              RMul(Q(Binom(k + t, k), 1), RMul(RPow(RNeg(a), t), c[n - k - 1 - t]))],
          n - k - 1)

\* the table of one row holding row i of t
OneRow(t, i) == [ng |-> 1, m |-> t.m, x |-> [r \in {0} |-> t.x[i]]]

(***************************************************************************)
(* C1. polyshift, round trip: for c of length n >= 1 and any shift a, the  *)
(* polynomial polyshift(c, a) evaluated at x + a equals the polynomial c   *)
(* evaluated at x, for every x sampled, and the output has length n.       *)
(***************************************************************************)
C1_RoundTripShift ==
    (ps_pc = "done" /\ VLen(ps_c) >= 1) =>
        /\ VLen(ps_d) = VLen(ps_c)
        /\ \A x \in XVals : Polyval(ps_d, RAdd(x, ps_a)) = Polyval(ps_c, x)

\* x^2 + 2x + 1 shifted by 1: g(1) = f(0) = 1 and g(3) = f(2) = 9
C1_Witness ==
    /\ ps_pc = "done"
    /\ ps_c = ExampleCoefs
    /\ ps_a = One
    /\ ps_d # ps_c
    /\ Polyval(ps_d, One) = One
    /\ Polyval(ps_d, Q(3, 1)) = Q(9, 1)

(***************************************************************************)
(* C2. modcost never mutates the table it is given: after the call, in     *)
(* every mode (an invalid one too) and for every table (a zero-row one     *)
(* too), each cell of the caller's table holds the value it held before,   *)
(* and the table returned is another array than the one passed.            *)
(***************************************************************************)
C2_InputNotMutated ==
    Called =>
        /\ heap[gencost] = given
        /\ Returned => (ret # gencost /\ ret \in DOMAIN heap)

\* a call that returned a table unlike the one passed
C2_Witness ==
    /\ Returned
    /\ given.ng = MaxRows
    /\ Out # given
    /\ heap[gencost] = given

(***************************************************************************)
(* C3. SHIFT_X: for a polynomial row of count n, the first n slots of the  *)
(* output are polyshift of the first n slots of the input with shift       *)
(* alpha, so that F_alpha(X + alpha) = F(X); for a piecewise-linear row of *)
(* count k, each x-coordinate has alpha added and each y-coordinate is     *)
(* unchanged.                                                              *)
(***************************************************************************)
C3_ShiftInput ==
    (Returned /\ modtype = "SHIFT_X") =>
        /\ \A r \in PolyRowsGiven :
              LET n == Count(given.x[r]) IN
              /\ Active(Out.x[r], n) = Polyshift(Active(given.x[r], n), alpha)
              /\ \A x \in XVals :
                    Polyval(Active(Out.x[r], n), RAdd(x, alpha))
                        = Polyval(Active(given.x[r], n), x)
        /\ \A r \in PwlRowsGiven : \A i \in 0..(Count(given.x[r]) - 1) :
              /\ XCoord(Out.x[r], i) = RAdd(XCoord(given.x[r], i), alpha)
              /\ YCoord(Out.x[r], i) = YCoord(given.x[r], i)

\* a quadratic row and a piecewise-linear row in one table, both moved by alpha
C3_Witness ==
    /\ Returned /\ modtype = "SHIFT_X" /\ alpha # Zero
    /\ \E r \in PolyRowsGiven :
          /\ Count(given.x[r]) = 3
          /\ Active(Out.x[r], 3) # Active(given.x[r], 3)
    /\ \E r \in PwlRowsGiven :
          /\ Count(given.x[r]) >= 1
          /\ XCoord(Out.x[r], 0) # XCoord(given.x[r], 0)

(***************************************************************************)
(* C4. SCALE_X with alpha # 0: for a polynomial row of count n, output     *)
(* coefficient i (from the highest degree) is input coefficient i divided  *)
(* by alpha^(n-i-1), so that F_alpha(X * alpha) = F(X) and the constant    *)
(* term is unchanged; for a piecewise-linear row of count k, each          *)
(* x-coordinate is multiplied by alpha and each y-coordinate is unchanged. *)
(***************************************************************************)
C4_ScaleInput ==
    (Returned /\ modtype = "SCALE_X" /\ alpha # Zero) =>
        /\ \A r \in PolyRowsGiven :
              LET n == Count(given.x[r]) IN
              /\ \A i \in 0..(n - 1) :
                    Out.x[r][COST + i] = RDiv(given.x[r][COST + i], RPow(alpha, n - i - 1))
              /\ n >= 1 => Out.x[r][COST + n - 1] = given.x[r][COST + n - 1]
              /\ \A x \in XVals :
                    Polyval(Active(Out.x[r], n), RMul(x, alpha))
                        = Polyval(Active(given.x[r], n), x)
        /\ \A r \in PwlRowsGiven : \A i \in 0..(Count(given.x[r]) - 1) :
              /\ XCoord(Out.x[r], i) = RMul(XCoord(given.x[r], i), alpha)
              /\ YCoord(Out.x[r], i) = YCoord(given.x[r], i)

\* a quadratic row rescaled by an alpha that is neither 0 nor 1, beside a
\* piecewise-linear row
C4_Witness ==
    /\ Returned /\ modtype = "SCALE_X" /\ alpha \notin {Zero, One}
    /\ \E r \in PolyRowsGiven :
          /\ Count(given.x[r]) = 3
          /\ Out.x[r][COST] # given.x[r][COST]
          /\ Out.x[r][COST + 1] # given.x[r][COST + 1]
    /\ \E r \in PwlRowsGiven :
          /\ Count(given.x[r]) >= 1
          /\ XCoord(Out.x[r], 0) # XCoord(given.x[r], 0)

(***************************************************************************)
(* C5. SHIFT_F: for a polynomial row of count n >= 1, alpha is added to    *)
(* the constant term (position n-1) only and positions 0..n-2 are          *)
(* unchanged, so that F_alpha(X) = F(X) + alpha; for a piecewise-linear    *)
(* row of count k, each y-coordinate has alpha added and each x-coordinate *)
(* is unchanged.                                                           *)
(***************************************************************************)
C5_ShiftOutput ==
    (Returned /\ modtype = "SHIFT_F") =>
        /\ \A r \in PolyRowsGiven :
              LET n == Count(given.x[r]) IN
              n >= 1 =>
                /\ Out.x[r][COST + n - 1] = RAdd(given.x[r][COST + n - 1], alpha)
                /\ \A i \in 0..(n - 2) : Out.x[r][COST + i] = given.x[r][COST + i]
                /\ \A x \in XVals :
                      Polyval(Active(Out.x[r], n), x)
                          = RAdd(Polyval(Active(given.x[r], n), x), alpha)
        /\ \A r \in PwlRowsGiven : \A i \in 0..(Count(given.x[r]) - 1) :
              /\ YCoord(Out.x[r], i) = RAdd(YCoord(given.x[r], i), alpha)
              /\ XCoord(Out.x[r], i) = XCoord(given.x[r], i)

\* a row of two or more coefficients whose constant term moved, beside a
\* piecewise-linear row whose y moved
C5_Witness ==
    /\ Returned /\ modtype = "SHIFT_F" /\ alpha # Zero
    /\ \E r \in PolyRowsGiven :
          LET n == Count(given.x[r]) IN
          /\ n >= 2
          /\ Out.x[r][COST + n - 1] # given.x[r][COST + n - 1]
    /\ \E r \in PwlRowsGiven :
          /\ Count(given.x[r]) >= 1
          /\ YCoord(Out.x[r], 0) # YCoord(given.x[r], 0)

(***************************************************************************)
(* C6. SCALE_F, which is the mode of a call that names none: for a         *)
(* polynomial row of count n, each of the n coefficients is multiplied by  *)
(* alpha, so that F_alpha(X) = F(X) * alpha; for a piecewise-linear row of *)
(* count k, each y-coordinate is multiplied by alpha and each x-coordinate *)
(* is unchanged.                                                           *)
(***************************************************************************)
C6_ScaleOutput ==
    /\ (Called /\ arg_modtype = Omitted) => modtype = "SCALE_F"
    /\ (Returned /\ modtype = "SCALE_F") =>
        /\ \A r \in PolyRowsGiven :
              LET n == Count(given.x[r]) IN
              /\ \A i \in 0..(n - 1) :
                    Out.x[r][COST + i] = RMul(given.x[r][COST + i], alpha)
              /\ \A x \in XVals :
                    Polyval(Active(Out.x[r], n), x)
                        = RMul(Polyval(Active(given.x[r], n), x), alpha)
        /\ \A r \in PwlRowsGiven : \A i \in 0..(Count(given.x[r]) - 1) :
              /\ YCoord(Out.x[r], i) = RMul(YCoord(given.x[r], i), alpha)
              /\ XCoord(Out.x[r], i) = XCoord(given.x[r], i)

\* breakpoints (0,0,10,50) with alpha = 2, no modtype named: y = (0,100), x = (0,10)
C6_Witness ==
    /\ Returned /\ arg_modtype = Omitted /\ alpha = Q(2, 1)
    /\ given \in ExampleTables
    /\ IsPwl(given.x[0])
    /\ Active(given.x[0], 4) = ExampleBreakpoints
    /\ YCoord(Out.x[0], 0) = Zero /\ YCoord(Out.x[0], 1) = Q(100, 1)
    /\ XCoord(Out.x[0], 0) = Zero /\ XCoord(Out.x[0], 1) = Q(10, 1)

(***************************************************************************)
(* C7. Padding is untouched: in every mode and for every alpha, the slots  *)
(* beyond a row's active region (from position count on in a polynomial    *)
(* row, from position 2*count on in a piecewise-linear row) hold in the    *)
(* output what they held in the input, whatever that is.                   *)
(***************************************************************************)
C7_PaddingUntouched ==
    Returned =>
        /\ \A r \in PolyRowsGiven : \A j \in (COST + Count(given.x[r]))..(given.m - 1) :
              Out.x[r][j] = given.x[r][j]
        /\ \A r \in PwlRowsGiven : \A j \in (COST + 2 * Count(given.x[r]))..(given.m - 1) :
              Out.x[r][j] = given.x[r][j]

(***************************************************************************)
(* C8. Invalid mode: when modtype is none of the four tags and the table   *)
(* has a row, modcost writes a diagnostic, raises nothing and returns a    *)
(* table equal cell for cell to the one passed.                            *)
(***************************************************************************)
C8_InvalidModeFallback ==
    (Called /\ modtype \notin ModTypes /\ given.ng >= 1) =>
        /\ Returned
        /\ err = NoError
        /\ Out = given
        /\ stderr = << InvalidModtype(modtype) >>

\* "BOGUS" on a two-row table: one diagnostic and the same cells
C8_Witness ==
    /\ Returned /\ modtype = "BOGUS" /\ alpha # Zero
    /\ given.ng >= 2
    /\ Len(stderr) = 1
    /\ Out = given
    /\ ret # gencost

(***************************************************************************)
(* C9. Malformed row: if a polynomial row's count is negative or exceeds   *)
(* the coefficient slots, modcost fails in each of the four modes with an  *)
(* error that reaches the caller, and returns no table.                    *)
(***************************************************************************)
C9_MalformedRowFails ==
    (Called /\ modtype \in ModTypes
        /\ \E r \in Rows(given) : Malformed(given.x[r], Slots(given))) => Raised

(***************************************************************************)
(* C10. Degenerate scale: SCALE_X with alpha = 0 on a table with a         *)
(* polynomial row of count n > 1 fails with an error reported to the       *)
(* caller; no table holding infinite or undefined coefficients is          *)
(* returned.                                                               *)
(***************************************************************************)
C10_DegenerateScaleFails ==
    (Called /\ modtype = "SCALE_X" /\ alpha = Zero
        /\ \E r \in PolyRowsGiven : Count(given.x[r]) > 1) =>
        /\ Raised
        /\ ~Returned

(***************************************************************************)
(* C11. Inverse pairing: for every table t whose rows' counts fit their    *)
(* slots and every alpha a, modcost(modcost(t, a, SHIFT_F), -a, SHIFT_F)   *)
(* equals t, and for a # 0 modcost(modcost(t, a, SCALE_F), 1/a, SCALE_F)   *)
(* equals t, cell for cell.                                                *)
(***************************************************************************)
C11_InversePairing ==
    (pc \in {"inverted", "inverse_raised"}
        /\ \A r \in Rows(given) : ~Malformed(given.x[r], Slots(given))) =>
        /\ pc = "inverted"
        /\ Out = given

(***************************************************************************)
(* C12. Identity shift and the short vectors: polyshift(c, 0) returns c    *)
(* for every length n >= 0, its power vector being [1, 0, 0, ...]; an      *)
(* empty c gives an empty result for every a, and a one-coefficient c      *)
(* comes back unchanged for every a.                                       *)
(***************************************************************************)
C12_IdentityShift ==
    ps_pc = "done" =>
        /\ ps_a = Zero =>
              /\ ps_d = ps_c
              /\ ps_A = [t \in 0..(VLen(ps_c) - 1) |-> IF t = 0 THEN One ELSE Zero]
        /\ VLen(ps_c) = 0 => ps_d = << >>
        /\ VLen(ps_c) = 1 => ps_d = ps_c

\* a zero shift of a three-coefficient vector whose coefficients all differ
C12_Witness ==
    /\ ps_pc = "done"
    /\ ps_a = Zero
    /\ VLen(ps_c) = 3
    /\ ps_c[0] # ps_c[1] /\ ps_c[1] # ps_c[2] /\ ps_c[0] # ps_c[2]
    /\ ps_k = 3
    /\ ps_d = ps_c

(***************************************************************************)
(* C13. Rows are independent and keep their order: row i of the returned   *)
(* table equals the single row modcost returns for the one-row table       *)
(* holding row i of the input, with the same alpha and mode; so the k-th   *)
(* row of the polynomial coefficient block goes back to the k-th           *)
(* polynomial row.                                                         *)
(***************************************************************************)
C13_RowIndependence ==
    Returned =>
        \A i \in Rows(given) :
            \E single \in {ModcostBody(OneRow(given, i), alpha, modtype)} :
                /\ single.err = NoError
                /\ single.g.ng = 1
                /\ single.g.x[0] = Out.x[i]

\* a piecewise-linear row above a polynomial row, both changed by the call:
\* the first polynomial row is not the first row of the table
C13_Witness ==
    /\ Returned
    /\ given.ng = 2
    /\ IsPwl(given.x[0]) /\ IsPoly(given.x[1])
    /\ Out.x[0] # given.x[0]
    /\ Out.x[1] # given.x[1]
    /\ Active(given.x[0], Slots(given)) # Active(given.x[1], Slots(given))
    /\ ModcostBody(OneRow(given, 1), alpha, modtype).g.x[0] = Out.x[1]

(***************************************************************************)
(* C14. polyshift's loop invariant: at the start of iteration k the weight *)
(* vector b has length n - k and b[t] is the binomial coefficient          *)
(* C(k + t, k); iteration k writes position n - k - 1 of the output as the *)
(* sum over t of C(k + t, k) * (-a)^t * c[n - k - 1 - t]; and each output  *)
(* position is written exactly once: once by the iterations done, not yet  *)
(* by the iterations to come.                                              *)
(***************************************************************************)
C14_BinomialRow ==
    ps_pc \in {"loop", "done"} =>
        \E n \in {VLen(ps_c)} :
            /\ ps_k \in 0..n
            /\ ps_pc = "done" => ps_k = n
            /\ DOMAIN ps_b = 0..(n - ps_k - 1)
            /\ \A t \in 0..(n - ps_k - 1) : ps_b[t] = Q(Binom(ps_k + t, ps_k), 1)
            /\ DOMAIN ps_d = 0..(n - 1)
            /\ \A j \in 0..(n - 1) :
                  IF j < ps_k
                  THEN /\ ps_w[n - j - 1] = 1
                       /\ ps_d[n - j - 1] = BinomSum(ps_c, ps_a, j)
                  ELSE /\ ps_w[n - j - 1] = 0
                       /\ ps_d[n - j - 1] = Zero

\* the start of iteration 1 of 3 with a nonzero shift: b is (1, 2), the last
\* position is written and differs from c's, the others are not written yet
C14_Witness ==
    /\ ps_pc = "loop"
    /\ VLen(ps_c) = 3
    /\ ps_k = 1
    /\ ps_a # Zero
    /\ ps_b = [t \in 0..1 |-> Q(t + 1, 1)]
    /\ ps_w = [j \in 0..2 |-> IF j = 2 THEN 1 ELSE 0]
    /\ ps_d[2] # ps_c[2]
    /\ ps_d[2] = BinomSum(ps_c, ps_a, 0)

(***************************************************************************)
(* C15. Header fields are preserved: in every mode and for every alpha,    *)
(* in every row whose count fits its slots (a polynomial row of count 0    *)
(* too), the columns before the coefficient slots (the model tag, the      *)
(* count and the other header columns) hold in the output what they held   *)
(* in the input.                                                           *)
(***************************************************************************)
C15_HeaderPreserved ==
    Returned =>
        \A r \in PolyRowsGiven \cup PwlRowsGiven : \A j \in 0..(COST - 1) :
            Out.x[r][j] = given.x[r][j]

=============================================================================
